---- MODULE Spec2Model ----
(***************************************************************************)
(* HR-Check-In (app.py): the daily attendance ledger (one workbook per     *)
(* class and civil day, rewritten whole on every new check-in) and the     *)
(* hall-pass table (SQLite rows with a status column).                     *)
(*                                                                         *)
(* Every HTTP request is a process that runs the handler's statements in   *)
(* order; the steps of different requests interleave (the Flask server     *)
(* handles requests on threads and the handlers take no lock).  The        *)
(* sequential specifications start a request only when no other request    *)
(* is in flight.                                                           *)
(***************************************************************************)
EXTENDS Integers, Sequences, FiniteSets, TLC

VARIABLES
    clock,      \* the host's current instant, seconds since the Unix epoch
    ticks,      \* how many times the clock has advanced
    nreq,       \* how many requests have been started
    files,      \* DATA_DIR: workbook path <<class id, day>> -> sequence of rows
    passes,     \* the hall_passes table, row i has id = i
    pc,         \* per request slot: the handler statement it is at
    rq,         \* per request slot: the request's payload
    loc,        \* per request slot: the handler's local variables, then its response
    acked,      \* check-in rows whose request has returned status "new"
    stored,     \* pass id -> the row as its first completing UPDATE left it
    cap         \* whether the camera opened at start-up is usable

vars == <<clock, ticks, nreq, files, passes, pc, rq, loc, acked, stored, cap>>

----------------------------------------------------------------------------
(* Bounds of the model *)

NumProcs == 2
MaxTicks == 2
MaxRequests == 3
MaxPasses == 2
MaxRaceTicks == 1

Procs == 1..NumProcs

None == "None"

----------------------------------------------------------------------------
(* Civil time: ZoneInfo("America/Chicago") around the 2025 transitions *)

SpringForward == 1741507200
FallBack == 1762066800
CstOffset == -21600
CdtOffset == -18000
SecondsPerDay == 86400

\* utcoffset of America/Chicago at the instant t
UtcOffset(t) == IF t >= SpringForward /\ t < FallBack THEN CdtOffset ELSE CstOffset

\* the wall-clock reading of datetime.now(ZoneInfo("America/Chicago"))
Wall(t) == t + UtcOffset(t)

ZoneName(t) == IF UtcOffset(t) = CdtOffset THEN "CDT" ELSE "CST"

\* strftime("%Y-%m-%d"): the civil date, as days since the epoch
get_today_str(t) == Wall(t) \div SecondsPerDay

\* strftime("%Y-%m-%d %H:%M:%S %Z")
Timestamp(t) == [wall |-> Wall(t), zone |-> ZoneName(t)]

\* strftime("%H%M%S")
TimeOfDay(t) == Wall(t) % SecondsPerDay

----------------------------------------------------------------------------
(* config.json and the roster workbooks *)

Classes == <<"hr1", "hr2">>
DefaultClass == "hr1"

ClassIds == {Classes[i] : i \in 1..Len(Classes)}

get_class_config(class_id) ==
    IF class_id # None /\ class_id \in ClassIds
        THEN class_id
        ELSE IF DefaultClass \in ClassIds THEN DefaultClass
             ELSE IF Len(Classes) > 0 THEN Classes[1] ELSE None

RosterFile(cfg) ==
    IF cfg = "hr1"
        THEN << [Name |-> "Ada Lovelace", snum |-> "101"],
                [Name |-> "Bob Stone", snum |-> "102"] >>
        ELSE << [Name |-> "Cy Young", snum |-> "201"] >>

load_roster_any(class_id) == RosterFile("hr1") \o RosterFile("hr2")

load_roster(class_id) == RosterFile(get_class_config(class_id))

\* roster.loc[roster["s-number"] == s_number]
RosterMatch(roster, s_number) ==
    SelectSeq(roster, LAMBDA r : r.snum = s_number)

----------------------------------------------------------------------------
(* The day's workbook *)

Path(cfg, day) == <<cfg, day>>

Exists(path) == path \in DOMAIN files

already_checked_in_mut(ws, s_number) == FALSE

already_checked_in_last(ws, s_number) ==
    Len(ws) > 0 /\ ws[Len(ws)].s = s_number

already_checked_in(ws, s_number) ==
    \E i \in 1..Len(ws) : ws[i].s = s_number

IdleLoc == [k |-> "idle"]
IdleRq == [k |-> "idle"]

\* the number of rows of the sheet that carry s_number
Count(ws, s_number) == Cardinality({i \in 1..Len(ws) : ws[i].s = s_number})

\* a handler returns: its locals are dropped and the response r is on its way
Return(p, r) ==
    /\ pc' = [pc EXCEPT ![p] = "done"]
    /\ loc' = [loc EXCEPT ![p] = r]
    /\ rq' = rq

Goto(p, label, locals) ==
    /\ pc' = [pc EXCEPT ![p] = label]
    /\ loc' = [loc EXCEPT ![p] = locals]
    /\ rq' = rq

\* a request takes the first free slot
CanStart(p, serial) ==
    /\ pc[p] = "idle"
    /\ \A q \in Procs : q < p => pc[q] # "idle"
    /\ nreq < MaxRequests
    /\ serial => \A q \in Procs : pc[q] = "idle"

\* the response has been delivered
respond(p) ==
    /\ pc[p] = "done"
    /\ pc' = [pc EXCEPT ![p] = "idle"]
    /\ loc' = [loc EXCEPT ![p] = IdleLoc]
    /\ rq' = [rq EXCEPT ![p] = IdleRq]
    /\ UNCHANGED <<clock, ticks, nreq, files, passes, acked, stored, cap>>

\* POST /checkin, from the payload to the workbook path
checkin_begin(p, serial, s_number, photo, class_id) ==
    /\ CanStart(p, serial)
    /\ nreq' = nreq + 1
    /\ UNCHANGED <<clock, ticks, files, passes, acked, stored, cap>>
    /\ rq' = [rq EXCEPT ![p] = [k |-> "checkin", s |-> s_number, photo |-> photo,
                                class_id |-> class_id]]
    /\ LET cfg == get_class_config(class_id)
           match == RosterMatch(load_roster(class_id), s_number)
           day == get_today_str(clock)
           path == Path(cfg, day)
           fail(e) == /\ pc' = [pc EXCEPT ![p] = "done"]
                      /\ loc' = [loc EXCEPT ![p] = [k |-> "checkin", status |-> e]]
       IN  IF s_number = "" THEN fail("missing s-number")
           ELSE IF photo = "missing" THEN fail("invalid photo")
           ELSE IF cfg = None THEN fail("invalid class")
           ELSE IF Len(match) = 0 THEN fail("not in class")
           ELSE /\ pc' = [pc EXCEPT ![p] = "ensure_workbook"]
                /\ loc' = [loc EXCEPT ![p] =
                              [k |-> "checkin", cfg |-> cfg, full_name |-> match[1].Name,
                               day |-> day,
                               before |-> IF Exists(path) THEN Count(files[path], s_number)
                                          ELSE 0]]

\* ensure_workbook: path.exists() and, when it does, load_workbook
ensure_workbook(p) ==
    /\ pc[p] = "ensure_workbook"
    /\ LET path == Path(loc[p].cfg, loc[p].day)
       IN  IF Exists(path)
               THEN Goto(p, "already_checked_in", ("ws" :> files[path]) @@ loc[p])
               ELSE Goto(p, "new_workbook", loc[p])
    /\ UNCHANGED <<clock, ticks, nreq, files, passes, acked, stored, cap>>

\* ensure_workbook: Workbook(), the header row, wb.save(path)
new_workbook(p) ==
    /\ pc[p] = "new_workbook"
    /\ files' = (Path(loc[p].cfg, loc[p].day) :> << >>) @@ files
    /\ Goto(p, "already_checked_in", ("ws" :> << >>) @@ loc[p])
    /\ UNCHANGED <<clock, ticks, nreq, passes, acked, stored, cap>>

\* what a finished check-in reports about itself
CheckinResult(p, status) ==
    [k |-> "checkin", status |-> status, cfg |-> loc[p].cfg, day |-> loc[p].day,
     before |-> loc[p].before]

\* the membership test, the timestamp and ws.append
checkin_append(p) ==
    /\ pc[p] = "already_checked_in"
    /\ UNCHANGED <<clock, ticks, nreq, files, passes, acked, stored, cap>>
    /\ IF already_checked_in(loc[p].ws, rq[p].s)
           THEN Return(p, CheckinResult(p, "already"))
           ELSE Goto(p, "save_photo",
                     ("row" :> [s |-> rq[p].s, name |-> loc[p].full_name,
                                ts |-> Timestamp(clock), photo |-> None]) @@ loc[p])

\* save_and_embed_photo: decode the data URL, write the file under today's directory
save_photo(p) ==
    /\ pc[p] = "save_photo"
    /\ UNCHANGED <<clock, ticks, nreq, files, passes, acked, stored, cap>>
    /\ IF rq[p].photo = "undecodable"
           THEN Return(p, CheckinResult(p, "error"))
           ELSE Goto(p, "web_path",
                     ("day_dir" :> get_today_str(clock)) @@ ("hms" :> TimeOfDay(clock))
                         @@ loc[p])

\* save_and_embed_photo: the returned web path, written to column E of the row
web_path(p) ==
    /\ pc[p] = "web_path"
    /\ UNCHANGED <<clock, ticks, nreq, files, passes, acked, stored, cap>>
    /\ Goto(p, "save",
            [k |-> "checkin", cfg |-> loc[p].cfg, day |-> loc[p].day,
             before |-> loc[p].before,
             ws |-> Append(loc[p].ws,
                           [loc[p].row EXCEPT !.photo =
                               [dir |-> get_today_str(clock), hms |-> loc[p].hms]])])

\* wb.save(xlsx_path) and the "new" response
checkin_save(p) ==
    /\ pc[p] = "save"
    /\ files' = (Path(loc[p].cfg, loc[p].day) :> loc[p].ws) @@ files
    /\ acked' = acked \cup {[cfg |-> loc[p].cfg, day |-> loc[p].day,
                             row |-> loc[p].ws[Len(loc[p].ws)]]}
    /\ Return(p, CheckinResult(p, "new"))
    /\ UNCHANGED <<clock, ticks, nreq, passes, stored, cap>>

----------------------------------------------------------------------------
(* The hall_passes table *)

Null == << >>
Some(v) == <<v>>

SecondsPerMinute == 60
DefaultDuration == 10

IntDiv_round(x, y) == IF x >= 0 THEN (2 * x + y) \div (2 * y) ELSE -((-x) \div y)

\* int(x / y) of Python: the quotient rounded toward zero
IntDiv(x, y) == IF x >= 0 THEN x \div y ELSE -((-x) \div y)

PassIds == DOMAIN passes

IsOpenFor(i, class_id, s_number, statuses) ==
    /\ passes[i].class_id = class_id
    /\ passes[i].s = s_number
    /\ passes[i].status \in statuses

\* SELECT ... WHERE class_id = ? AND s_number = ? AND status = 'active'
\* ORDER BY check_out_time DESC LIMIT 1: the row's id, 0 when there is none
get_active_hall_pass(class_id, s_number) ==
    LET m == {i \in PassIds : IsOpenFor(i, class_id, s_number, {"active"})}
    IN  IF m = {} THEN 0
        ELSE CHOOSE i \in m :
                 \A j \in m : passes[j].check_out_time <= passes[i].check_out_time

\* datetime('now') > datetime(check_out_time, '+' || expected_duration || ' minutes')
PastDeadline(row, now) ==
    /\ row.expected_duration >= 0
    /\ now > row.check_out_time + row.expected_duration * SecondsPerMinute

update_overdue_passes_all(ps, now) ==
    [i \in DOMAIN ps |->
        IF PastDeadline(ps[i], now) THEN [ps[i] EXCEPT !.status = "overdue"] ELSE ps[i]]

update_overdue_passes_toggle(ps, now) ==
    [i \in DOMAIN ps |->
        IF ps[i].status \in {"active", "overdue"} /\ PastDeadline(ps[i], now)
            THEN [ps[i] EXCEPT !.status = IF @ = "active" THEN "overdue" ELSE "active"]
            ELSE ps[i]]

\* UPDATE hall_passes SET status = 'overdue' WHERE status = 'active' AND <past deadline>
update_overdue_passes(ps, now) ==
    [i \in DOMAIN ps |->
        IF ps[i].status = "active" /\ PastDeadline(ps[i], now)
            THEN [ps[i] EXCEPT !.status = "overdue"]
            ELSE ps[i]]

camera_is_initialized == cap

\* the file name of a camera photo, None without an opened camera
PhotoPath(kind, s_number, now, camera) ==
    IF camera THEN Some([kind |-> kind, s |-> s_number, stamp |-> Wall(now)]) ELSE Null

CheckoutLabels == {"get_active_hall_pass", "checkout_photo", "record_hall_pass_checkout"}

\* data.get(key, default) of a field that the payload may not carry
payload_get(field, default) == IF field = Null THEN default ELSE field[1]

\* POST /api/hall-pass/checkout, from the payload to the roster lookup
hall_pass_checkout(p, serial, class_id, s_number, reason, duration, image_data_url) ==
    /\ CanStart(p, serial)
    /\ Len(passes) + Cardinality({q \in Procs : pc[q] \in CheckoutLabels}) < MaxPasses
    /\ nreq' = nreq + 1
    /\ UNCHANGED <<clock, ticks, files, passes, acked, stored, cap>>
    /\ rq' = [rq EXCEPT ![p] = [k |-> "checkout", class_id |-> class_id, s |-> s_number,
                                reason |-> reason, duration |-> duration]]
    /\ LET student == RosterMatch(load_roster(class_id), s_number)
           open == IF class_id = None THEN {}
                   ELSE {i \in PassIds :
                            IsOpenFor(i, class_id, s_number, {"active", "overdue"})}
           fail(e) == /\ pc' = [pc EXCEPT ![p] = "done"]
                      /\ loc' = [loc EXCEPT ![p] = [k |-> "checkout", status |-> e,
                                                    open |-> open]]
       IN  IF class_id = None \/ s_number = "" \/ reason = "" \/ image_data_url = ""
               THEN fail("missing fields")
           ELSE IF Len(student) = 0 THEN fail("not in roster")
           ELSE /\ pc' = [pc EXCEPT ![p] = "get_active_hall_pass"]
                /\ loc' = [loc EXCEPT ![p] =
                              [k |-> "checkout", student_name |-> student[1].Name,
                               duration |-> payload_get(duration, DefaultDuration),
                               open |-> open]]

\* the check for a pass that is already out
checkout_check(p) ==
    /\ pc[p] = "get_active_hall_pass"
    /\ UNCHANGED <<clock, ticks, nreq, files, passes, acked, stored, cap>>
    /\ LET active_pass == get_active_hall_pass(rq[p].class_id, rq[p].s)
       IN  IF active_pass # 0
               THEN Return(p, [k |-> "checkout", status |-> "already active",
                               pass |-> active_pass, open |-> loc[p].open])
               ELSE Goto(p, "checkout_photo", loc[p])

\* the checkout photo
checkout_photo(p) ==
    /\ pc[p] = "checkout_photo"
    /\ UNCHANGED <<clock, ticks, nreq, files, passes, acked, stored, cap>>
    /\ Goto(p, "record_hall_pass_checkout",
            ("photo_path" :> PhotoPath("checkout", rq[p].s, clock, camera_is_initialized))
                @@ loc[p])

\* record_hall_pass_checkout: the roster lookup and the INSERT
record_hall_pass_checkout(p) ==
    /\ pc[p] = "record_hall_pass_checkout"
    /\ UNCHANGED <<clock, ticks, nreq, files, acked, stored, cap>>
    /\ LET student == RosterMatch(load_roster(rq[p].class_id), rq[p].s)
       IN  IF Len(student) = 0
               THEN /\ Return(p, [k |-> "checkout", status |-> "error",
                                  open |-> loc[p].open])
                    /\ passes' = passes
               ELSE /\ passes' = Append(passes,
                           [class_id |-> rq[p].class_id, s |-> rq[p].s,
                            name |-> student[1].Name,
                            check_out_time |-> clock,
                            expected_duration |-> loc[p].duration,
                            check_out_photo |-> loc[p].photo_path,
                            check_out_reason |-> rq[p].reason,
                            check_in_time |-> Null, check_in_photo |-> Null,
                            check_in_notes |-> Null, actual_duration |-> Null,
                            status |-> "active"])
                    /\ Return(p, [k |-> "checkout", status |-> "ok",
                                  pass |-> Len(passes) + 1, open |-> loc[p].open])

PassIsActive_mut(row) == TRUE

\* hall_pass['status'] != 'active' rejects the check-in
PassIsActive(row) == row.status = "active"

\* POST /api/hall-pass/checkin, from the payload to the status test
hall_pass_checkin(p, serial, pass_id, notes) ==
    /\ CanStart(p, serial)
    /\ nreq' = nreq + 1
    /\ UNCHANGED <<clock, ticks, files, passes, acked, stored, cap>>
    /\ rq' = [rq EXCEPT ![p] = [k |-> "pass_checkin", pass_id |-> pass_id, notes |-> notes]]
    /\ LET was == IF pass_id \in PassIds THEN passes[pass_id].status ELSE "absent"
           fail(e) == /\ pc' = [pc EXCEPT ![p] = "done"]
                      /\ loc' = [loc EXCEPT ![p] = [k |-> "pass_checkin", status |-> e,
                                                    was |-> was]]
       IN  IF pass_id = 0 THEN fail("missing pass id")
           ELSE IF pass_id \notin PassIds THEN fail("not found")
           ELSE IF ~PassIsActive(passes[pass_id]) THEN fail("not active")
           ELSE /\ pc' = [pc EXCEPT ![p] = "checkin_photo"]
                /\ loc' = [loc EXCEPT ![p] =
                              [k |-> "pass_checkin", s_number |-> passes[pass_id].s,
                               was |-> was]]

\* the check-in photo
checkin_photo(p) ==
    /\ pc[p] = "checkin_photo"
    /\ UNCHANGED <<clock, ticks, nreq, files, passes, acked, stored, cap>>
    /\ Goto(p, "actual_duration",
            ("photo_path" :>
                 PhotoPath("checkin", loc[p].s_number, clock, camera_is_initialized))
                @@ loc[p])

\* record_hall_pass_checkin: minutes between the stored check-out time, read as UTC
\* and moved to Chicago, and now in Chicago
ActualDuration(check_out_time, now) ==
    IntDiv(Wall(now) - Wall(check_out_time), SecondsPerMinute)

\* record_hall_pass_checkin: the SELECT of the check-out time and the duration
record_checkin_duration(p) ==
    /\ pc[p] = "actual_duration"
    /\ UNCHANGED <<clock, ticks, nreq, files, passes, acked, stored, cap>>
    /\ IF rq[p].pass_id \notin PassIds
           THEN Return(p, [k |-> "pass_checkin", status |-> "error", was |-> loc[p].was])
           ELSE Goto(p, "update",
                     ("now" :> clock)
                         @@ ("actual_duration" :>
                                 ActualDuration(passes[rq[p].pass_id].check_out_time, clock))
                         @@ loc[p])

\* record_hall_pass_checkin: the UPDATE ... WHERE id = ?
record_checkin_update(p) ==
    /\ pc[p] = "update"
    /\ UNCHANGED <<clock, ticks, nreq, files, acked, cap>>
    /\ LET id == rq[p].pass_id
           row == [passes[id] EXCEPT !.check_in_time = Some(clock),
                                     !.check_in_photo = loc[p].photo_path,
                                     !.check_in_notes = Some(rq[p].notes),
                                     !.actual_duration = Some(loc[p].actual_duration),
                                     !.status = "completed"]
       IN  /\ passes' = [passes EXCEPT ![id] = row]
           /\ stored' = IF id \in DOMAIN stored THEN stored ELSE (id :> row) @@ stored
    /\ Return(p, [k |-> "pass_checkin", status |-> "success", was |-> loc[p].was,
                   now |-> loc[p].now])

\* GET /api/hall-pass/status/<class_id>: update_overdue_passes() before the listing
hall_pass_status(serial) ==
    /\ serial => \A q \in Procs : pc[q] = "idle"
    /\ passes' = update_overdue_passes(passes, clock)
    /\ UNCHANGED <<clock, ticks, nreq, files, pc, rq, loc, acked, stored, cap>>

\* time passes
Tick(steps, max) ==
    /\ ticks < max
    /\ \E d \in steps : clock' = clock + d
    /\ ticks' = ticks + 1
    /\ UNCHANGED <<nreq, files, passes, pc, rq, loc, acked, stored, cap>>

----------------------------------------------------------------------------
(* The attendance ledger *)

LedgerStart == 1741499970
LedgerTicks == {30}
LedgerSNumbers == {"101", "102", "201", ""}
LedgerPhotos == {"ok", "undecodable", "missing"}
LedgerClassIds == {"hr1", "hr2", "zz", None}

InitAt(t, cameras) ==
    /\ clock = t
    /\ cap \in cameras
    /\ ticks = 0
    /\ nreq = 0
    /\ files = << >>
    /\ passes = << >>
    /\ pc = [p \in Procs |-> "idle"]
    /\ rq = [p \in Procs |-> IdleRq]
    /\ loc = [p \in Procs |-> IdleLoc]
    /\ acked = {}
    /\ stored = << >>

InitLedger == InitAt(LedgerStart, {TRUE})

CheckinSteps(p) ==
    \/ ensure_workbook(p)
    \/ new_workbook(p)
    \/ checkin_append(p)
    \/ save_photo(p)
    \/ web_path(p)
    \/ checkin_save(p)
    \/ respond(p)

NextLedgerSeq ==
    \/ \E s \in LedgerSNumbers, ph \in LedgerPhotos, c \in LedgerClassIds :
           checkin_begin(1, TRUE, s, ph, c)
    \/ CheckinSteps(1)
    \/ Tick(LedgerTicks, MaxTicks)

SpecLedgerSeq == InitLedger /\ [][NextLedgerSeq]_vars

\* concurrent check-ins into one class's workbook
RacePhotos == {"ok", "undecodable"}
RaceClassIds == {"hr1"}
SameMember(p) == "101"
OtherMember(p) == IF p = 1 THEN "101" ELSE "102"

\* every request is for the same member
NextSameMember ==
    \/ \E p \in Procs, ph \in RacePhotos, c \in RaceClassIds :
           checkin_begin(p, FALSE, SameMember(p), ph, c)
    \/ \E p \in Procs : CheckinSteps(p)
    \/ Tick(LedgerTicks, MaxRaceTicks)

SpecSameMember == InitLedger /\ [][NextSameMember]_vars

\* requests in flight together are for different members
NextOtherMembers ==
    \/ \E p \in Procs, ph \in RacePhotos, c \in RaceClassIds :
           checkin_begin(p, FALSE, OtherMember(p), ph, c)
    \/ \E p \in Procs : CheckinSteps(p)
    \/ Tick(LedgerTicks, MaxRaceTicks)

SpecOtherMembers == InitLedger /\ [][NextOtherMembers]_vars

\* the rows of a day's workbook, and the rows acknowledged with "new" for it
Rows(path) == {files[path][i] : i \in 1..Len(files[path])}
Acked(path) == {a.row : a \in {b \in acked : Path(b.cfg, b.day) = path}}

Answered(p, status) ==
    pc[p] = "done" /\ loc[p].k = "checkin" /\ loc[p].status = status

\* C1: with check-ins executed one at a time, the workbook of every (class, day)
\* holds exactly the rows whose check-in returned "new", one per member and none for
\* anyone else; a check-in for a member already in the day's workbook returns
\* "already", and "new" is returned only for a member who was not in it.
C1_OneRecordPerMember ==
    /\ \A a \in acked : Exists(Path(a.cfg, a.day))
    /\ \A path \in DOMAIN files :
           /\ Rows(path) = Acked(path)
           /\ \A s \in LedgerSNumbers : Count(files[path], s) <= 1
    /\ \A p \in Procs :
           /\ Answered(p, "already") => loc[p].before = 1
           /\ Answered(p, "new") => loc[p].before = 0
           /\ Answered(p, "error") => loc[p].before = 0

\* C1: a second check-in of a checked-in member has been answered "already"
C1_Witness ==
    \E p \in Procs :
        /\ Answered(p, "already")
        /\ Count(files[Path(loc[p].cfg, loc[p].day)], rq[p].s) = 1
        /\ Cardinality(acked) >= 2

Quiescent == \A p \in Procs : pc[p] = "idle"

\* C2: when the concurrent check-ins of one member have all been answered, and
\* one of them was answered "new", the day's workbook holds exactly one row for
\* that member.
C2_ConcurrentSameMemberOneRecord ==
    Quiescent =>
        \A a \in acked :
            /\ Exists(Path(a.cfg, a.day))
            /\ Count(files[Path(a.cfg, a.day)], a.row.s) = 1

\* C3: a row whose check-in was answered "new" is in the day's workbook, with
\* its timestamp and photo path, in every later state, whatever check-ins of
\* other members run concurrently.
C3_AckedRowsStay ==
    \A a \in acked :
        /\ Exists(Path(a.cfg, a.day))
        /\ a.row \in Rows(Path(a.cfg, a.day))

----------------------------------------------------------------------------
(* Hall passes *)

PassStart == 1741500000
PassTicks == {300, 360}
PassClassIds == {"hr1", None}
PassSNumbers == {"101", "102", "201"}
PassReasons == {"restroom"}
PassDurations == {Some(DefaultDuration)}
PassNotes == {"", "back"}
PassImages == {"data:image/png", ""}

InitPass == InitAt(PassStart, BOOLEAN)

PassSteps(p) ==
    \/ checkout_check(p)
    \/ checkout_photo(p)
    \/ record_hall_pass_checkout(p)
    \/ checkin_photo(p)
    \/ record_checkin_duration(p)
    \/ record_checkin_update(p)
    \/ respond(p)

NextPassSeq ==
    \/ \E c \in PassClassIds, s \in PassSNumbers, r \in PassReasons, d \in PassDurations,
          img \in PassImages :
           hall_pass_checkout(1, TRUE, c, s, r, d, img)
    \/ \E id \in 0..MaxPasses + 1, n \in PassNotes : hall_pass_checkin(1, TRUE, id, n)
    \/ PassSteps(1)
    \/ hall_pass_status(TRUE)
    \/ Tick(PassTicks, MaxTicks)

SpecPassSeq == InitPass /\ [][NextPassSeq]_vars

\* concurrent requests on the passes of one member
RaceDurations == {Some(5)}
RaceNotes == {"back"}
RaceTicks == {360}

NextPass ==
    \/ \E p \in Procs, d \in RaceDurations :
           hall_pass_checkout(p, FALSE, "hr1", "101", "restroom", d, "data:image/png")
    \/ \E p \in Procs, id \in 1..MaxPasses, n \in RaceNotes :
           hall_pass_checkin(p, FALSE, id, n)
    \/ \E p \in Procs : PassSteps(p)
    \/ hall_pass_status(FALSE)
    \/ Tick(RaceTicks, MaxRaceTicks)

SpecPass == InitPass /\ [][NextPass]_vars

\* concurrent checkouts of one member, no pass ever past its deadline
NextCheckoutRace ==
    \/ \E p \in Procs, d \in RaceDurations :
           hall_pass_checkout(p, FALSE, "hr1", "101", "restroom", d, "data:image/png")
    \/ \E p \in Procs :
           checkout_check(p) \/ checkout_photo(p) \/ record_hall_pass_checkout(p)
               \/ respond(p)
    \/ Tick({SecondsPerMinute}, MaxRaceTicks)

SpecCheckoutRace == InitPass /\ [][NextCheckoutRace]_vars

Open == {"active", "overdue"}

OpenPasses(class_id, s_number) ==
    {i \in PassIds : IsOpenFor(i, class_id, s_number, Open)}

PassAnswered(p, kind) == pc[p] = "done" /\ loc[p].k = kind

\* C4: at every moment each (class, member) has at most one pass whose status is
\* active or overdue.
C4_AtMostOneOpenPass ==
    \A i \in PassIds :
        Cardinality(OpenPasses(passes[i].class_id, passes[i].s)) <= 1

\* C5: a checkout issued while the member has a pass that is active or overdue is
\* answered "already active" with that pass, and the member still has exactly one
\* pass that is active or overdue.
C5_SecondCheckoutConflicts ==
    \A p \in Procs :
        PassAnswered(p, "checkout") /\ loc[p].open # {} /\ loc[p].status # "missing fields"
            => /\ loc[p].status = "already active"
               /\ loc[p].pass \in loc[p].open
               /\ OpenPasses(rq[p].class_id, rq[p].s) = loc[p].open
               /\ Cardinality(loc[p].open) = 1

\* C6: of the checkouts of one member that run concurrently at most one creates a
\* pass: the member never has two passes (no pass is checked in or past its
\* deadline here).
C6_CheckAndInsertAtomic ==
    \A i \in PassIds :
        Cardinality({j \in PassIds : passes[j].class_id = passes[i].class_id
                                      /\ passes[j].s = passes[i].s}) <= 1

\* C7: a check-in of a pass whose status is overdue succeeds.
C7_OverdueCanCheckIn ==
    \A p \in Procs :
        PassAnswered(p, "pass_checkin") /\ loc[p].was = "overdue"
            => loc[p].status = "success"

\* what a check-in of a completed pass, or of an id that matches no pass, is answered
C8_Responses ==
    \A p \in Procs :
        /\ PassAnswered(p, "pass_checkin") /\ loc[p].was = "completed"
               => loc[p].status = "not active"
        /\ PassAnswered(p, "pass_checkin") /\ loc[p].was = "absent" /\ rq[p].pass_id # 0
               => loc[p].status = "not found"

\* every completed pass still holds the row its first check-in stored
C8_Stored ==
    \A id \in DOMAIN stored : id \in PassIds /\ passes[id] = stored[id]

\* the step that rejects such a check-in changes no pass
C8_Step ==
    \A p \in Procs :
        pc[p] = "idle" /\ pc'[p] # "idle" /\ rq'[p].k = "pass_checkin"
            /\ rq'[p].pass_id # 0
            /\ (rq'[p].pass_id \in PassIds => passes[rq'[p].pass_id].status = "completed")
            => pc'[p] = "done" /\ passes' = passes

\* C8: with requests executed one at a time, a check-in of a completed pass is
\* answered "not active" and a check-in of an id that matches no pass "not found",
\* both in a step that changes no pass; every completed pass keeps the row its
\* first check-in stored.
C8_CompletedCheckinRejected ==
    [](C8_Responses /\ C8_Stored) /\ [][C8_Step]_vars

\* C8: a check-in of a completed pass has been answered
C8_Witness ==
    \E p \in Procs :
        /\ PassAnswered(p, "pass_checkin")
        /\ loc[p].was = "completed"
        /\ rq[p].pass_id \in DOMAIN stored
        /\ Some(rq[p].notes) # stored[rq[p].pass_id].check_in_notes

\* what one step may do to the status of the passes
C9_Step ==
    \A i \in PassIds :
        /\ i \in DOMAIN passes'
        /\ passes[i].status = "overdue" => passes'[i].status # "active"
        /\ passes[i].status = "completed" => passes'[i].status = "completed"

\* C9: no step takes a pass from overdue to active, and no step changes the status
\* of a completed pass (or removes a pass).
C9_StatusMonotone == [][C9_Step]_vars

\* C9: one pass is completed while another is overdue
C9_Witness ==
    \E i, j \in PassIds :
        /\ passes[i].status = "completed"
        /\ passes[j].status = "overdue"
        /\ PastDeadline(passes[i], clock)

\* C10: running update_overdue_passes twice at the same instant leaves the table
\* as running it once does.
C10_ReclassifyIdempotent ==
    update_overdue_passes(update_overdue_passes(passes, clock), clock)
        = update_overdue_passes(passes, clock)

\* C10: a table that the first run changes
C10_Witness ==
    /\ update_overdue_passes(passes, clock) # passes
    /\ \E i \in PassIds : passes[i].status = "active" /\ ~PastDeadline(passes[i], clock)

----------------------------------------------------------------------------
(* Hall passes: the duration a checkout asks for *)

\* the "duration" field of the checkout payload: absent, 10, 0 or -5
InputDurations == {Null, Some(DefaultDuration), Some(0), Some(-5)}

NextPassInput ==
    \/ \E d \in InputDurations :
           hall_pass_checkout(1, TRUE, "hr1", "101", "restroom", d, "data:image/png")
    \/ \E id \in 1..MaxPasses, n \in RaceNotes : hall_pass_checkin(1, TRUE, id, n)
    \/ PassSteps(1)
    \/ hall_pass_status(TRUE)
    \/ Tick(PassTicks, MaxTicks)

SpecPassInput == InitAt(PassStart, {TRUE}) /\ [][NextPassInput]_vars

\* the table with every active pass whose deadline is strictly before t made overdue
DeadlineFlipped(ps, t) ==
    [i \in DOMAIN ps |->
        IF /\ ps[i].status = "active"
           /\ ps[i].check_out_time + ps[i].expected_duration * SecondsPerMinute < t
            THEN [ps[i] EXCEPT !.status = "overdue"]
            ELSE ps[i]]

\* C11: whatever the table and the time, the reclassification run now makes overdue
\* exactly the active passes whose check-out time plus expected duration is
\* strictly before now, and changes no other pass and no other field.
C11_ReclassifyExactlyPastDeadline ==
    update_overdue_passes(passes, clock) = DeadlineFlipped(passes, clock)

\* C14: every pass has a positive expected duration, a checkout that asks for a
\* duration of zero or less is not answered "ok", and a checkout that gives no
\* duration and is answered "ok" has created a pass whose expected duration is 10.
C14_OnlyPositiveDurations ==
    /\ \A i \in PassIds : passes[i].expected_duration > 0
    /\ \A p \in Procs :
           PassAnswered(p, "checkout") /\ rq[p].duration # Null
               => (rq[p].duration[1] <= 0 => loc[p].status # "ok")
    /\ \A p \in Procs :
           PassAnswered(p, "checkout") /\ rq[p].duration = Null /\ loc[p].status = "ok"
               => passes[loc[p].pass].expected_duration = DefaultDuration

----------------------------------------------------------------------------
(* Hall passes: the minutes a pass was out *)

\* half a minute before Chicago's midnight of 2025-03-09, and a minute before each
\* of the two changes of the zone's offset in 2025
ElapsedStarts ==
    {LedgerStart, SpringForward - SecondsPerMinute, FallBack - SecondsPerMinute}
ElapsedTicks == {59, 31}

InitElapsed == \E t \in ElapsedStarts : InitAt(t, {TRUE})

NextElapsed ==
    \/ hall_pass_checkout(1, TRUE, "hr1", "101", "restroom", Null, "data:image/png")
    \/ \E id \in 1..MaxPasses, n \in RaceNotes : hall_pass_checkin(1, TRUE, id, n)
    \/ PassSteps(1)
    \/ Tick(ElapsedTicks, MaxTicks)

SpecElapsed == InitElapsed /\ [][NextElapsed]_vars

\* a check-in that has been answered "success"
CheckedIn(p) == PassAnswered(p, "pass_checkin") /\ loc[p].status = "success"

\* the seconds from the check-out of the pass to the check-in's reading of the time
ElapsedSeconds(p) == loc[p].now - passes[rq[p].pass_id].check_out_time

\* C12: a check-in k whole minutes of elapsed time after the check-out stores an
\* actual duration within one minute of k, and never a negative one, also across
\* midnight and across a change of the zone's offset.
C12_DurationIsElapsedMinutes ==
    \A p \in Procs :
        CheckedIn(p) =>
            LET stored_minutes == passes[rq[p].pass_id].actual_duration[1]
                k == ElapsedSeconds(p) \div SecondsPerMinute
            IN  /\ stored_minutes >= 0
                /\ stored_minutes - k \in -1..1

\* C13: when the zone's offset is the same at check-out and check-in, the stored
\* actual duration of s >= 0 elapsed seconds is s / 60 rounded down.
C13_DurationRoundsDown ==
    \A p \in Procs :
        CheckedIn(p) /\ ElapsedSeconds(p) >= 0
            /\ UtcOffset(loc[p].now) = UtcOffset(passes[rq[p].pass_id].check_out_time)
            => passes[rq[p].pass_id].actual_duration
                   = Some(ElapsedSeconds(p) \div SecondsPerMinute)

\* C13: a check-in 90 seconds after the check-out has stored 1, the day having
\* changed in between
C13_Witness ==
    \E p \in Procs :
        /\ CheckedIn(p)
        /\ ElapsedSeconds(p) = 90
        /\ UtcOffset(loc[p].now) = UtcOffset(passes[rq[p].pass_id].check_out_time)
        /\ get_today_str(loc[p].now) # get_today_str(passes[rq[p].pass_id].check_out_time)
        /\ passes[rq[p].pass_id].actual_duration = Some(1)

----------------------------------------------------------------------------
(* The attendance ledger: what a check-in that stores nothing leaves behind *)

\* the statements of checkin between the roster lookup and the response
CheckinLabels ==
    {"ensure_workbook", "new_workbook", "already_checked_in", "save_photo", "web_path",
     "save"}

\* the check-in in slot p found, when it started, the member in the day's workbook
FoundAlready(p) ==
    /\ pc[p] \in CheckinLabels \cup {"done"}
    /\ loc[p].k = "checkin"
    /\ "before" \in DOMAIN loc[p]
    /\ loc[p].before >= 1

\* no step of such a check-in changes a workbook
C15_Step == \A p \in Procs : FoundAlready(p) => files' = files

\* such a check-in is answered "already", the member's one row being the row that
\* was acknowledged with "new"
C15_Kept ==
    \A p \in Procs :
        FoundAlready(p) /\ pc[p] = "done"
            => LET path == Path(loc[p].cfg, loc[p].day)
               IN  /\ loc[p].status = "already"
                   /\ \A i \in 1..Len(files[path]) :
                          files[path][i].s = rq[p].s => files[path][i] \in Acked(path)

\* C15: with check-ins executed one at a time, a check-in that finds the member in
\* the day's workbook is answered "already" and none of its steps changes a
\* workbook: the member's row stays the row of the first check-in, with its
\* timestamp and photo path.
C15_AlreadyIsNoOp == []C15_Kept /\ [][C15_Step]_vars

\* C15: a check-in that carried another photo, one that cannot be decoded, has been
\* answered "already"; the member's row is older than now
C15_Witness ==
    \E p \in Procs :
        /\ Answered(p, "already")
        /\ rq[p].photo = "undecodable"
        /\ \E i \in 1..Len(files[Path(loc[p].cfg, loc[p].day)]) :
               LET row == files[Path(loc[p].cfg, loc[p].day)][i]
               IN  row.s = rq[p].s /\ row.ts.wall < Wall(clock)

\* s_number is in the roster workbook of the configured class c
InRoster(c, s_number) ==
    \E i \in 1..Len(RosterFile(c)) : RosterFile(c)[i].snum = s_number

\* the step that takes a check-in with an s-number and a photo for a configured
\* class whose roster lacks the s-number
C16_Step ==
    \A p \in Procs :
        pc[p] = "idle" /\ pc'[p] # "idle" /\ rq'[p].k = "checkin"
            /\ rq'[p].s # "" /\ rq'[p].photo # "missing"
            /\ rq'[p].class_id \in ClassIds
            /\ ~InRoster(rq'[p].class_id, rq'[p].s)
            => /\ pc'[p] = "done"
               /\ loc'[p].status = "not in class"
               /\ files' = files

\* C16: a check-in for an s-number that the roster of its class does not hold is
\* answered "not in class" in one step, which creates no workbook and changes none.
C16_NotInRosterChangesNothing == [][C16_Step]_vars

\* C16: member 101 of hr1, checked in there today, has been refused in hr2, which
\* has no workbook today
C16_Witness ==
    \E p \in Procs :
        /\ Answered(p, "not in class")
        /\ rq[p].class_id = "hr2"
        /\ rq[p].s = "101"
        /\ Exists(Path("hr1", get_today_str(clock)))
        /\ Count(files[Path("hr1", get_today_str(clock))], "101") = 1
        /\ ~Exists(Path("hr2", get_today_str(clock)))

\* a check-in of a member who is not in the day's workbook, with a photo that
\* cannot be decoded
WillFail(p) ==
    /\ pc[p] \in CheckinLabels
    /\ rq[p].photo = "undecodable"
    /\ loc[p].before = 0

\* no step of a check-in that fails changes the workbooks there are
C17_Step == \A p \in Procs : WillFail(p) => files' = files

\* after the failure the member is not in the day's workbook
C17_NotStored ==
    \A p \in Procs :
        Answered(p, "error")
            => \/ ~Exists(Path(loc[p].cfg, loc[p].day))
               \/ Count(files[Path(loc[p].cfg, loc[p].day)], rq[p].s) = 0

\* C17: a check-in whose photo cannot be stored is answered with an error, none of
\* its steps changes the workbooks there are (the rows of the day and the days that
\* have a workbook), and the member is not in the day's workbook afterwards, so a
\* retry is answered "new".
C17_FailedCheckinLeavesNoTrace == []C17_NotStored /\ [][C17_Step]_vars

----------------------------------------------------------------------------
(* Attendance analytics *)

\* the attendance workbooks under APP_DIR, by the text after "attendance_": the
\* application writes its workbooks under DATA_DIR and none under APP_DIR
AppDirFiles == << >>

\* sorted(...) of Path objects: by class id, then by date
ClassRank(cfg) == CHOOSE i \in 1..Len(Classes) : Classes[i] = cfg

FileNameLeq(a, b) ==
    \/ ClassRank(a[1]) < ClassRank(b[1])
    \/ a[1] = b[1] /\ a[2] <= b[2]

RECURSIVE SortedReverse(_)
\* sorted(names, reverse=True)
SortedReverse(names) ==
    IF names = {} THEN << >>
    ELSE LET last == CHOOSE m \in names : \A n \in names : FileNameLeq(n, m)
         IN  <<last>> \o SortedReverse(names \ {last})

\* DATA_DIR.glob(f"attendance_{id}_*.xlsx") and DATA_DIR.glob("attendance_*.xlsx")
GlobClass(cfg) == {name \in DOMAIN files : name[1] = cfg}
GlobAll == DOMAIN files

\* the order of the roster's names under str comparison
NameOrder == <<"Ada Lovelace", "Bob Stone", "Cy Young">>
NameRank(name) == CHOOSE i \in 1..Len(NameOrder) : NameOrder[i] = name

Without(seq, i) == SubSeq(seq, 1, i - 1) \o SubSeq(seq, i + 1, Len(seq))

RECURSIVE SortedByRank(_, _)
\* a stable sort of recs, ranks[i] being the rank of the name of recs[i]
SortedByRank(recs, ranks) ==
    IF recs = << >> THEN << >>
    ELSE LET i == CHOOSE i \in 1..Len(recs) :
                      \A j \in 1..Len(recs) :
                          ranks[i] < ranks[j] \/ (ranks[i] = ranks[j] /\ i <= j)
         IN  <<recs[i]>> \o SortedByRank(Without(recs, i), Without(ranks, i))

\* a float that is the quotient of two integers
Ratio(num, den) == [num |-> num, den |-> den]

RECURSIVE SumNum(_)
SumNum(rates) == IF rates = << >> THEN 0 ELSE Head(rates).num + SumNum(Tail(rates))

\* the s-numbers in the rows of a sheet
PresentOn(ws) == {ws[i].s : i \in 1..Len(ws)}

\* student_records: one record per s-number of the roster, in the order of its
\* first row, with the name of its last row
student_records(roster) ==
    LET firsts == SelectSeq([i \in 1..Len(roster) |-> i],
                            LAMBDA i : \A j \in 1..(i - 1) : roster[j].snum # roster[i].snum)
        last(s_num) == CHOOSE j \in 1..Len(roster) :
                           /\ roster[j].snum = s_num
                           /\ \A k \in (j + 1)..Len(roster) : roster[k].snum # s_num
    IN  [n \in 1..Len(firsts) |->
            [name |-> roster[last(roster[firsts[n]].snum)].Name,
             s_number |-> roster[firsts[n]].snum,
             present_count |-> 0, absent_count |-> 0]]

count_date_ledger(records, present_on_date) ==
    LET known == {records[i].s_number : i \in 1..Len(records)}
        counted == [i \in 1..Len(records) |->
                       IF records[i].s_number \in present_on_date
                           THEN [records[i] EXCEPT !.present_count = @ + 1]
                           ELSE [records[i] EXCEPT !.absent_count = @ + 1]]
    IN  IF present_on_date \subseteq known THEN counted
        ELSE Append(counted,
                    [name |-> "Cy Young",
                     s_number |-> CHOOSE s \in present_on_date : s \notin known,
                     present_count |-> 1, absent_count |-> 0])

\* the update of the counts for one date: every record is present or absent
count_date(records, present_on_date) ==
    [i \in 1..Len(records) |->
        IF records[i].s_number \in present_on_date
            THEN [records[i] EXCEPT !.present_count = @ + 1]
            ELSE [records[i] EXCEPT !.absent_count = @ + 1]]

RECURSIVE count_dates(_, _, _)
\* the loop over available_dates: a date whose workbook is not found under
\* APP_DIR is skipped
count_dates(app_dir, records, dates) ==
    IF dates = << >> THEN records
    ELSE count_dates(app_dir,
                     IF Head(dates) \notin DOMAIN app_dir THEN records
                     ELSE count_date(records, PresentOn(app_dir[Head(dates)])),
                     Tail(dates))

\* calculate_analytics, app_dir being the attendance workbooks under APP_DIR
calculate_analytics_in(app_dir, roster, available_dates) ==
    LET total_sessions == Len(available_dates)
        total_students == Len(roster)
        records == count_dates(app_dir, student_records(roster), available_dates)
        attendance_rate(record) ==
            IF total_sessions > 0
                THEN Ratio(record.present_count * 100, total_sessions)
                ELSE Ratio(0, 1)
        students_list ==
            [i \in 1..Len(records) |->
                [name |-> records[i].name, s_number |-> records[i].s_number,
                 present_count |-> records[i].present_count,
                 absent_count |-> records[i].absent_count,
                 attendance_rate |-> attendance_rate(records[i])]]
        rates == [i \in 1..Len(records) |-> students_list[i].attendance_rate]
        total_attendance ==
            Ratio(SumNum(rates), IF total_sessions > 0 THEN total_sessions ELSE 1)
    IN  [total_sessions |-> total_sessions,
         total_students |-> total_students,
         avg_attendance |->
             IF total_students > 0
                 THEN Ratio(total_attendance.num, total_attendance.den * total_students)
                 ELSE Ratio(0, 1),
         students |->
             SortedByRank(students_list,
                          [i \in 1..Len(records) |-> NameRank(records[i].name)])]

\* calculate_analytics in the running application
calculate_analytics(roster, available_dates) ==
    calculate_analytics_in(AppDirFiles, roster, available_dates)

\* a read-only request takes the first free slot
CanRead(p, serial) ==
    /\ pc[p] = "idle"
    /\ \A q \in Procs : q < p => pc[q] # "idle"
    /\ serial => \A q \in Procs : pc[q] = "idle"

\* GET /history of an authenticated session
history(p, serial, class_id, date) ==
    /\ CanRead(p, serial)
    /\ UNCHANGED <<clock, ticks, nreq, files, passes, acked, stored, cap>>
    /\ rq' = [rq EXCEPT ![p] = [k |-> "history", class_id |-> class_id, date |-> date]]
    /\ pc' = [pc EXCEPT ![p] = "done"]
    /\ LET selected_date == payload_get(date, get_today_str(clock))
           class_config == get_class_config(class_id)
           found == SortedReverse(GlobClass(class_config))
           available_dates ==
               IF found = << >> THEN <<get_today_str(clock)>>
               ELSE [i \in 1..Len(found) |-> found[i][2]]
           roster == load_roster(class_id)
           xlsx_path == Path(class_config, selected_date)
           present == IF Exists(xlsx_path) THEN files[xlsx_path] ELSE << >>
           absent == SelectSeq(roster, LAMBDA r : r.snum \notin PresentOn(present))
       IN  loc' = [loc EXCEPT ![p] =
               IF class_config = None
                   THEN [k |-> "history", status |-> "invalid class"]
                   ELSE [k |-> "history", status |-> "ok", cfg |-> class_config,
                         present |-> present,
                         absent |-> SortedByRank(absent,
                                        [i \in 1..Len(absent) |-> NameRank(absent[i].Name)]),
                         selected_date |-> selected_date,
                         available_dates |-> available_dates,
                         analytics |-> calculate_analytics(roster, available_dates)]]

\* GET /export/analytics of an authenticated session
export_analytics(p, serial) ==
    /\ CanRead(p, serial)
    /\ UNCHANGED <<clock, ticks, nreq, files, passes, acked, stored, cap>>
    /\ rq' = [rq EXCEPT ![p] = [k |-> "export"]]
    /\ pc' = [pc EXCEPT ![p] = "done"]
    /\ LET available_dates == SortedReverse(GlobAll)
           roster == load_roster(None)
       IN  loc' = [loc EXCEPT ![p] =
               [k |-> "export", status |-> "ok", available_dates |-> available_dates,
                analytics |-> calculate_analytics(roster, available_dates)]]

HistorySNumbers == {"101", "102", "201"}
HistoryClassIds == {"hr1", "hr2"}
HistoryDates == {Null, Some(get_today_str(LedgerStart))}

NextHistory ==
    \/ \E s \in HistorySNumbers, ph \in RacePhotos, c \in HistoryClassIds :
           checkin_begin(1, TRUE, s, ph, c)
    \/ CheckinSteps(1)
    \/ \E c \in HistoryClassIds \cup {None}, d \in HistoryDates : history(1, TRUE, c, d)
    \/ export_analytics(1, TRUE)
    \/ Tick(LedgerTicks, MaxTicks)

SpecHistory == InitLedger /\ [][NextHistory]_vars

\* the days on which the class has a workbook
LedgerDays(cfg) == {name[2] : name \in {n \in DOMAIN files : n[1] = cfg}}

Reported(p, kind) == pc[p] = "done" /\ loc[p].k = kind /\ loc[p].status = "ok"

Descending(dates) ==
    \A i, j \in 1..Len(dates) : i < j => dates[i] > dates[j]

\* C18: the available dates that the history page lists for a class are exactly
\* the days on which the class has a workbook, most recent first, none when it has
\* no workbook, and total_sessions is their number; the sessions of the exported
\* analytics, whose members are those of the default class, are the workbooks of
\* that class.
C18_AvailableDaysAreLedgerDays ==
    \A p \in Procs :
        /\ Reported(p, "history") =>
               LET dates == loc[p].available_dates
               IN  /\ {dates[i] : i \in 1..Len(dates)} = LedgerDays(loc[p].cfg)
                   /\ Descending(dates)
                   /\ loc[p].analytics.total_sessions
                          = Cardinality(LedgerDays(loc[p].cfg))
        /\ Reported(p, "export") =>
               LET dates == loc[p].available_dates
               IN  /\ \A i \in 1..Len(dates) : dates[i][1] = DefaultClass
                   /\ loc[p].analytics.total_sessions
                          = Cardinality(LedgerDays(DefaultClass))

\* C19: for every member the history page reports, present_count is the number of
\* days of the class whose workbook holds a row of the member.
C19_PresentCountFromLedgers ==
    \A p \in Procs :
        Reported(p, "history") =>
            \A i \in 1..Len(loc[p].analytics.students) :
                LET student == loc[p].analytics.students[i]
                IN  student.present_count
                        = Cardinality({d \in LedgerDays(loc[p].cfg) :
                              student.s_number \in PresentOn(files[Path(loc[p].cfg, d)])})

RatioEq(a, b) == a.num * b.den = b.num * a.den
RatioAdd(a, b) == Ratio(a.num * b.den + b.num * a.den, a.den * b.den)

RECURSIVE RateSum(_)
RateSum(students) ==
    IF students = << >> THEN Ratio(0, 1)
    ELSE RatioAdd(Head(students).attendance_rate, RateSum(Tail(students)))

\* C20: in every analytics report present_count + absent_count = total_sessions
\* for every member and avg_attendance is the sum of the members' rates divided by
\* their number; with no session every rate and the average are 0, and with no
\* member the average is 0.
C20_ReportTotals ==
    \A p \in Procs :
        Reported(p, "history") \/ Reported(p, "export") =>
            LET a == loc[p].analytics
                n == Len(a.students)
                sum == RateSum(a.students)
            IN  /\ \A i \in 1..n :
                       a.students[i].present_count + a.students[i].absent_count
                           = a.total_sessions
                /\ n > 0 => RatioEq(a.avg_attendance, Ratio(sum.num, sum.den * n))
                /\ n = 0 => a.avg_attendance.num = 0
                /\ a.total_sessions = 0 =>
                       /\ a.avg_attendance.num = 0
                       /\ \A i \in 1..n : a.students[i].attendance_rate.num = 0

----------------------------------------------------------------------------
(* calculate_analytics as a function of the roster, the dates and APP_DIR *)

AnalyzeMembers ==
    {[Name |-> "Ada Lovelace", snum |-> "101"], [Name |-> "Bob Stone", snum |-> "102"]}

\* rosters without a repeated member
AnalyzeRosters ==
    {<< >>} \cup {<<m>> : m \in AnalyzeMembers}
        \cup {r \in AnalyzeMembers \X AnalyzeMembers : r[1] # r[2]}

AnalyzeDays == {get_today_str(LedgerStart), get_today_str(LedgerStart) + 1}

AnalyzeDates ==
    {<< >>} \cup {<<d>> : d \in AnalyzeDays}
        \cup {r \in AnalyzeDays \X AnalyzeDays : r[1] # r[2]}

\* the sheet of a workbook: rows of some of 101, 102 and 201
AnalyzeSheets ==
    {SelectSeq(<<[s |-> "101"], [s |-> "201"], [s |-> "102"]>>, LAMBDA r : r.s \in ids) :
        ids \in SUBSET {"101", "102", "201"}}

AnalyzeStores ==
    UNION {[days -> AnalyzeSheets] : days \in SUBSET AnalyzeDays}

InitAnalyze ==
    /\ clock = LedgerStart
    /\ cap = TRUE
    /\ ticks = 0
    /\ nreq = 0
    /\ files = << >>
    /\ passes = << >>
    /\ acked = {}
    /\ stored = << >>
    /\ pc = [p \in Procs |-> IF p = 1 THEN "calculate_analytics" ELSE "idle"]
    /\ loc = [p \in Procs |-> IdleLoc]
    /\ \E roster \in AnalyzeRosters, dates \in AnalyzeDates, app_dir \in AnalyzeStores :
           rq = [p \in Procs |->
                    IF p = 1 THEN [k |-> "analytics", roster |-> roster,
                                   available_dates |-> dates, app_dir |-> app_dir]
                    ELSE IdleRq]

\* one call of calculate_analytics
analyze(p) ==
    /\ pc[p] = "calculate_analytics"
    /\ UNCHANGED <<clock, ticks, nreq, files, passes, acked, stored, cap>>
    /\ Return(p, [k |-> "analytics", status |-> "ok",
                  analytics |-> calculate_analytics_in(rq[p].app_dir, rq[p].roster,
                                                       rq[p].available_dates)])

NextAnalyze == analyze(1) \/ respond(1)

SpecAnalyze == InitAnalyze /\ [][NextAnalyze]_vars

RosterIds(roster) == {roster[i].snum : i \in 1..Len(roster)}

\* the workbooks without the rows of s-numbers that are not in ids
OnlyRowsOf(app_dir, ids) ==
    [d \in DOMAIN app_dir |-> SelectSeq(app_dir[d], LAMBDA r : r.s \in ids)]

\* an s-number in a workbook of a listed date that the roster does not hold
LedgerOnlyIds(p) ==
    {s \in {"101", "102", "201"} :
        /\ s \notin RosterIds(rq[p].roster)
        /\ \E i \in 1..Len(rq[p].available_dates) :
               /\ rq[p].available_dates[i] \in DOMAIN rq[p].app_dir
               /\ s \in PresentOn(rq[p].app_dir[rq[p].available_dates[i]])}

\* C21: the report has one entry for each member of the roster and none for any
\* other s-number, and it is the report that the same workbooks without the rows
\* of s-numbers outside the roster give.
C21_RosterDriven ==
    \A p \in Procs :
        Reported(p, "analytics") =>
            LET students == loc[p].analytics.students
                ids == RosterIds(rq[p].roster)
            IN  /\ Len(students) = Cardinality(ids)
                /\ {students[i].s_number : i \in 1..Len(students)} = ids
                /\ loc[p].analytics
                       = calculate_analytics_in(OnlyRowsOf(rq[p].app_dir, ids),
                                                rq[p].roster, rq[p].available_dates)

\* C21: a report on a roster of one member, present on a date whose workbook also
\* holds two s-numbers that the roster lacks
C21_Witness ==
    \E p \in Procs :
        /\ Reported(p, "analytics")
        /\ Len(rq[p].roster) = 1
        /\ Cardinality(LedgerOnlyIds(p)) = 2
        /\ loc[p].analytics.students[1].present_count >= 1

----------------------------------------------------------------------------
(* The roster workbooks under DATA_DIR *)

\* DATA_DIR / class_config['studentsPath']
get_roster_path(class_config) == <<"students", class_config>>

\* str.strip() on the texts that occur
Strip(text) == IF text = " 103 " THEN "103" ELSE text

snum_taken_never(df, s) == FALSE

\* ((df[snum_col].astype(str).str.strip()) == s).any()
snum_taken(df, s) == \E i \in 1..Len(df) : Strip(df[i].snum) = s

RECURSIVE add_entries(_, _, _)
\* the loop over the entries: [df, added] after it
add_entries(df, added, entries) ==
    IF entries = << >> THEN [df |-> df, added |-> added]
    ELSE LET n == Strip(Head(entries).Name)
             s == Strip(Head(entries).snum)
         IN  IF n = "" \/ s = "" \/ snum_taken(df, s)
                 THEN add_entries(df, added, Tail(entries))
                 ELSE add_entries(Append(df, [Name |-> n, snum |-> s]),
                                  Append(added, [Name |-> n, snum |-> s]),
                                  Tail(entries))

\* POST /roster/add of an authenticated session
add_roster(p, class_id, entries) ==
    /\ CanStart(p, TRUE)
    /\ nreq' = nreq + 1
    /\ UNCHANGED <<clock, ticks, passes, acked, stored, cap>>
    /\ rq' = [rq EXCEPT ![p] = [k |-> "add_roster", class_id |-> class_id,
                                entries |-> entries]]
    /\ pc' = [pc EXCEPT ![p] = "done"]
    /\ LET class_config == get_class_config(class_id)
           roster_path == get_roster_path(class_config)
           df == IF Exists(roster_path) THEN files[roster_path] ELSE << >>
           after == add_entries(df, << >>, entries)
           before == IF Exists(roster_path) THEN Some(files[roster_path]) ELSE Null
       IN  IF class_config = None
               THEN /\ loc' = [loc EXCEPT ![p] = [k |-> "add_roster",
                                                  status |-> "invalid class",
                                                  before |-> before]]
                    /\ files' = files
           ELSE IF entries = << >>
               THEN /\ loc' = [loc EXCEPT ![p] = [k |-> "add_roster",
                                                  status |-> "no entries",
                                                  before |-> before]]
                    /\ files' = files
           ELSE /\ files' = (roster_path :> after.df) @@ files
                /\ loc' = [loc EXCEPT ![p] = [k |-> "add_roster", status |-> "ok",
                                              cfg |-> class_config,
                                              added |-> after.added, before |-> before]]

\* GET /roster of an authenticated session: load_roster reads the class's roster
\* workbook and, when there is none, creates an empty one
get_roster(p, class_id) ==
    /\ CanStart(p, TRUE)
    /\ nreq' = nreq + 1
    /\ UNCHANGED <<clock, ticks, passes, acked, stored, cap>>
    /\ rq' = [rq EXCEPT ![p] = [k |-> "get_roster", class_id |-> class_id]]
    /\ pc' = [pc EXCEPT ![p] = "done"]
    /\ LET class_config == get_class_config(class_id)
           roster_path == get_roster_path(class_config)
       IN  IF class_config = None
               THEN /\ loc' = [loc EXCEPT ![p] = [k |-> "get_roster", status |-> "error",
                                                  existed |-> FALSE]]
                    /\ files' = files
           ELSE IF ~Exists(roster_path)
               THEN /\ files' = (roster_path :> << >>) @@ files
                    /\ loc' = [loc EXCEPT ![p] = [k |-> "get_roster", status |-> "ok",
                                                  cfg |-> class_config,
                                                  existed |-> FALSE, students |-> << >>]]
           ELSE /\ files' = files
                /\ loc' = [loc EXCEPT ![p] =
                       [k |-> "get_roster", status |-> "ok", cfg |-> class_config,
                        existed |-> TRUE,
                        students |-> [i \in 1..Len(files[roster_path]) |->
                                         [Name |-> Strip(files[roster_path][i].Name),
                                          snum |-> Strip(files[roster_path][i].snum)]]]]

\* the entries of a POST /roster/add
RosterEntries ==
    {[Name |-> "Ada Byron", snum |-> "101"], [Name |-> "Dee Dee", snum |-> " 103 "],
     [Name |-> "Eve Eden", snum |-> "103"], [Name |-> "", snum |-> "104"],
     [Name |-> "Fay Fox", snum |-> "104"]}

RosterBatches ==
    {<< >>} \cup {<<e>> : e \in RosterEntries} \cup (RosterEntries \X RosterEntries)

\* the class ids that have a roster workbook at the start
RosterClassSets == {{"hr1"}, {"hr1", "hr2"}}

InitRoster ==
    /\ clock = LedgerStart
    /\ cap = TRUE
    /\ ticks = 0
    /\ nreq = 0
    /\ passes = << >>
    /\ acked = {}
    /\ stored = << >>
    /\ pc = [p \in Procs |-> "idle"]
    /\ rq = [p \in Procs |-> IdleRq]
    /\ loc = [p \in Procs |-> IdleLoc]
    /\ \E present \in RosterClassSets :
           files = [path \in {get_roster_path(c) : c \in present} |-> RosterFile(path[2])]

NextRoster ==
    \/ \E c \in ClassIds, entries \in RosterBatches : add_roster(1, c, entries)
    \/ \E c \in ClassIds : get_roster(1, c)
    \/ respond(1)

SpecRoster == InitRoster /\ [][NextRoster]_vars

DistinctIds(df) == \A i, j \in 1..Len(df) : df[i].snum = df[j].snum => i = j

\* the entries that a batch adds to a roster: those with a name and an s-number
\* whose s-number is neither in the roster nor in an entry added before it
Appended(old, entries) ==
    LET norm == [i \in 1..Len(entries) |->
                    [Name |-> Strip(entries[i].Name), snum |-> Strip(entries[i].snum)]]
        valid(i) == norm[i].Name # "" /\ norm[i].snum # ""
                        /\ \A k \in 1..Len(old) : old[k].snum # norm[i].snum
        first(i) == \A j \in 1..(i - 1) : valid(j) => norm[j].snum # norm[i].snum
    IN  SelectSeq([i \in 1..Len(entries) |->
                      IF valid(i) /\ first(i) THEN Some(norm[i]) ELSE Null],
                  LAMBDA e : e # Null)

\* C22: every roster workbook has pairwise distinct s-numbers, and after a
\* POST /roster/add the rows that were there keep their place, name and
\* s-number, the rows after them are the entries of "added", and "added" is the
\* batch's entries with a name and an s-number that was not yet in the roster,
\* the first of each s-number.
C22_MergeByIdWithoutOverwrite ==
    /\ \A path \in DOMAIN files : DistinctIds(files[path])
    /\ \A p \in Procs :
           Reported(p, "add_roster") =>
               LET old == payload_get(loc[p].before, << >>)
                   new == files[get_roster_path(loc[p].cfg)]
                   expected == Appended(old, rq[p].entries)
               IN  /\ SubSeq(new, 1, Len(old)) = old
                   /\ new = old \o loc[p].added
                   /\ loc[p].added = [i \in 1..Len(expected) |-> expected[i][1]]

\* C22: a batch of two entries with the s-number 103, written differently, has
\* added the first to a roster that an earlier call had extended
C22_Witness ==
    \E p \in Procs :
        /\ Reported(p, "add_roster")
        /\ Len(rq[p].entries) = 2
        /\ Strip(rq[p].entries[1].snum) = Strip(rq[p].entries[2].snum)
        /\ rq[p].entries[1].snum # rq[p].entries[2].snum
        /\ Len(loc[p].added) = 1
        /\ Len(payload_get(loc[p].before, << >>)) = 3

----------------------------------------------------------------------------
(* Requests that name a class id that config.json does not hold *)

UnknownGroupClassIds == {"hr1", "zz"}

NextUnknownGroup ==
    \/ \E c \in UnknownGroupClassIds : checkin_begin(1, TRUE, "101", "ok", c)
    \/ \E c \in UnknownGroupClassIds :
           hall_pass_checkout(1, TRUE, c, "101", "restroom", Null, "data:image/png")
    \/ \E id \in 1..MaxPasses : hall_pass_checkin(1, TRUE, id, "back")
    \/ ensure_workbook(1)
    \/ new_workbook(1)
    \/ checkin_append(1)
    \/ save_photo(1)
    \/ web_path(1)
    \/ checkin_save(1)
    \/ PassSteps(1)

SpecUnknownGroup == InitAt(PassStart, {TRUE}) /\ [][NextUnknownGroup]_vars

\* C23: a check-in or a hall-pass checkout that names a class id which is not
\* configured is refused at once, before it reads a roster or writes anything,
\* and no pass carries such a class id.
C23_UnknownGroupRejected ==
    /\ \A p \in Procs :
           pc[p] # "idle" /\ rq[p].k \in {"checkin", "checkout"}
               /\ rq[p].class_id \notin ClassIds \cup {None}
               => pc[p] = "done" /\ loc[p].status \notin {"new", "already", "ok"}
    /\ \A i \in PassIds : passes[i].class_id \in ClassIds

\* C24: a GET /roster for a class whose roster workbook does not exist is answered
\* with an error and leaves the class without a roster workbook.
C24_MissingRosterIsAnError ==
    \A p \in Procs :
        pc[p] = "done" /\ loc[p].k = "get_roster" /\ ~loc[p].existed
            => /\ loc[p].status # "ok"
               /\ ~Exists(get_roster_path(get_class_config(rq[p].class_id)))

----------------------------------------------------------------------------
(* The pass history *)

\* date(check_out_time) of SQLite: the date of the stored UTC text
SqlDate(t) == t \div SecondsPerDay

RECURSIVE OrderByCheckoutDesc(_)
\* ORDER BY check_out_time DESC, rows of one second in the order of their ids
OrderByCheckoutDesc(ids) ==
    IF ids = {} THEN << >>
    ELSE LET i == CHOOSE i \in ids :
                      \A j \in ids :
                          \/ passes[j].check_out_time < passes[i].check_out_time
                          \/ passes[j].check_out_time = passes[i].check_out_time /\ i <= j
         IN  <<i>> \o OrderByCheckoutDesc(ids \ {i})

\* strftime('%s', check_in_time) - strftime('%s', check_out_time)
duration_seconds(row) ==
    IF row.check_in_time = Null THEN Null
    ELSE Some(row.check_in_time[1] - row.check_out_time)

\* the row as the history returns it: actual_duration_mins is set when
\* check_in_time and duration_seconds are both truthy
pass_data(i) ==
    LET secs == duration_seconds(passes[i])
    IN  [id |-> i, row |-> passes[i], duration_seconds |-> secs,
         actual_duration_mins |->
             IF passes[i].check_in_time # Null /\ secs # Null /\ secs[1] # 0
                 THEN Some(IntDiv(secs[1], SecondsPerMinute))
                 ELSE Null]

\* GET /api/hall-pass/history of an authenticated session
hall_pass_history(p, serial, class_id, date) ==
    /\ CanRead(p, serial)
    /\ UNCHANGED <<clock, ticks, nreq, files, passes, acked, stored, cap>>
    /\ rq' = [rq EXCEPT ![p] = [k |-> "pass_history", class_id |-> class_id,
                                date |-> date]]
    /\ pc' = [pc EXCEPT ![p] = "done"]
    /\ LET selected == {i \in PassIds :
                           /\ passes[i].class_id = class_id
                           /\ date # Null => SqlDate(passes[i].check_out_time) = date[1]}
           ordered == OrderByCheckoutDesc(selected)
       IN  loc' = [loc EXCEPT ![p] =
               IF class_id = None
                   THEN [k |-> "pass_history", status |-> "missing class id"]
                   ELSE [k |-> "pass_history", status |-> "ok", now |-> clock,
                         passes |-> [n \in 1..Len(ordered) |-> pass_data(ordered[n])]]]

ReadDurations == {Some(1)}
ReadClassIds == {"hr1", None}

\* no date, or the civil date of one of the starts or the day after it
ReadDates ==
    {Null} \cup {Some(get_today_str(t) + i) : t \in ElapsedStarts, i \in {0, 1}}

NextPassReads ==
    \/ \E d \in ReadDurations :
           hall_pass_checkout(1, TRUE, "hr1", "101", "restroom", d, "data:image/png")
    \/ \E id \in 1..MaxPasses, n \in RaceNotes : hall_pass_checkin(1, TRUE, id, n)
    \/ PassSteps(1)
    \/ hall_pass_status(TRUE)
    \/ \E c \in ReadClassIds, date \in ReadDates : hall_pass_history(1, TRUE, c, date)
    \/ Tick(ElapsedTicks, MaxTicks)

SpecPassReads == InitElapsed /\ [][NextPassReads]_vars

\* C25: every pass that the pass history returns without a check-in, and whose
\* check-out time plus expected duration was before the time of the read, is
\* returned with the status overdue.
C25_ReadsSeeOverdue ==
    \A p \in Procs :
        Reported(p, "pass_history") =>
            \A n \in 1..Len(loc[p].passes) :
                LET row == loc[p].passes[n].row
                IN  /\ row.status # "completed"
                    /\ loc[p].now > row.check_out_time
                                        + row.expected_duration * SecondsPerMinute
                    => row.status = "overdue"

\* C26: of the check-ins of one pass at most one is answered "success", and a
\* completed pass keeps the check-in time, photo, notes and actual duration that
\* the first completing UPDATE wrote, whatever check-ins run concurrently.
C26_FirstCompletionStays ==
    /\ \A p, q \in Procs :
           CheckedIn(p) /\ CheckedIn(q) /\ rq[p].pass_id = rq[q].pass_id => p = q
    /\ \A id \in DOMAIN stored :
           /\ passes[id].check_in_time = stored[id].check_in_time
           /\ passes[id].check_in_photo = stored[id].check_in_photo
           /\ passes[id].check_in_notes = stored[id].check_in_notes
           /\ passes[id].actual_duration = stored[id].actual_duration

\* C27: the pass history of a class for a date returns exactly the passes of the
\* class whose check-out instant has that civil date in America/Chicago.
C27_HistoryByCivilDate ==
    \A p \in Procs :
        Reported(p, "pass_history") /\ rq[p].date # Null =>
            {loc[p].passes[n].id : n \in 1..Len(loc[p].passes)}
                = {i \in PassIds :
                      /\ passes[i].class_id = rq[p].class_id
                      /\ get_today_str(passes[i].check_out_time) = rq[p].date[1]}

\* C29: every completed pass that the pass history returns carries
\* actual_duration_mins, equal to the actual_duration that the check-in stored.
C29_HistoryDurationIsStored ==
    \A p \in Procs :
        Reported(p, "pass_history") =>
            \A n \in 1..Len(loc[p].passes) :
                LET data == loc[p].passes[n]
                IN  data.row.status = "completed"
                        => /\ data.actual_duration_mins # Null
                           /\ data.actual_duration_mins = data.row.actual_duration

\* C28: every row stored in the ledger of a class for day d has a timestamp whose
\* civil date is d and a photo path under the directory of day d, also when
\* midnight passes between the steps of the check-in that wrote the row.
C28_RowsBelongToLedgerDay ==
    \A path \in DOMAIN files :
        \A n \in 1..Len(files[path]) :
            LET row == files[path][n]
            IN  /\ row.ts.wall \div SecondsPerDay = path[2]
                /\ row.photo.dir = path[2]

====
